---- MODULE Spec2Model ----
(***************************************************************************)
(* Release Integrity Registry: the gateway routes of routes/packages.ts,   *)
(* the FileStorageService, the PackageModel / DownloadLogModel tables and  *)
(* the SoftwareReleaseContract chaincode, as one state machine.            *)
(*                                                                         *)
(* Every `await` of a route handler is a suspension point, so a handler is *)
(* a small process whose steps interleave with the steps of the other      *)
(* requests.  A chaincode transaction is one atomic step on the world      *)
(* state (the ledger serialises the transactions of a key).                *)
(***************************************************************************)
EXTENDS Integers, Sequences, FiniteSets, TLC

(* ------------------------------ bounds -------------------------------- *)
MaxPublish == 2      \* publish requests that can be in flight together
NumVersions == 2     \* versions of the package
NumBuffers == 2      \* distinct artifact contents a client can upload

PubReqs == 1..MaxPublish
Versions == 1..NumVersions
Buffers == 1..NumBuffers
PackageIds == {"com.acme.lib"}
Keys == PackageIds \X Versions

NoFile == 0          \* no file at a path / no req.file in a request
NoPkg == "none"      \* no row in the packages table

(* users of the gateway: id -> role (users.role, user_role enum) *)
Users == {"alice", "bob", "root"}
Role(u) == IF u = "root" THEN "ADMIN" ELSE "OWNER"

\* config.mspId of the gateway, and the organisations of the channel
GatewayMspId == "Org1MSP"
MspIds == {"Org1MSP", "Org2MSP"}

VARIABLES
    worldState,     \* ledger: key -> serialized SoftwareRelease, <<>> if absent
    txResult,       \* answer to the last transaction a channel client submitted
    files,          \* packages-storage: key -> buffer or NoFile
    packages,       \* packages table: packageId -> owner_id or NoPkg
    downloadLogs,   \* download_logs table: keys having at least one row
    pub,            \* POST /upload requests in flight
    dl,             \* the GET download-file request
    del,            \* the DELETE /:packageId request
    val,            \* the POST validate-file request
    subscriptions   \* subscriptions table: rows <<user_id, package_id>>

vars == <<worldState, txResult, files, packages, downloadLogs, pub, dl, del, val,
          subscriptions>>
stores == <<worldState, txResult, files, packages, downloadLogs, subscriptions>>

(* --------------------------- Content Hasher --------------------------- *)
\* crypto.createHash('sha256').update(buffer).digest('hex'): a digest that
\* is a function of the content and differs for different contents.
calculateFileHash(buffer) == <<"sha256", buffer>>

\* mutant: the utility hashes with another algorithm
generateSHA256_Sha1(buffer) == <<"sha1", buffer>>

\* HashUtil.generateSHA256: crypto.createHash('sha256').update(buffer).digest('hex')
generateSHA256(buffer) == <<"sha256", buffer>>

\* HashUtil.validateHash: actualHash === expectedHash
validateHash(buffer, expectedHash) == generateSHA256(buffer) = expectedHash

(* ----------------------------- chaincode ------------------------------ *)
NoJSON == <<>>

createKey(packageId, version) == <<packageId, version>>

SoftwareRelease(packageId, version, fileHash, status, publisher) ==
    [packageId |-> packageId, version |-> version, fileHash |-> fileHash,
     status |-> status, publisher |-> publisher]

\* genson.serialize(release): the five bean properties, by name order
serialize(release) ==
    <<release.fileHash, release.packageId, release.publisher,
      release.status, release.version>>

\* mutant: the creator binds publisher to no property of the JSON
deserialize_NoPublisher(json) ==
    SoftwareRelease(json[2], json[5], json[1], json[4], "")

\* genson.deserialize(json, SoftwareRelease.class): the @JsonProperty creator
deserialize(json) ==
    SoftwareRelease(json[2], json[5], json[1], json[4], json[3])

\* mutant: the status is toggled instead of set
setStatus_Toggle(release, status) ==
    [release EXCEPT !.status = IF release.status = status THEN "ACTIVE" ELSE status]

setStatus(release, status) == [release EXCEPT !.status = status]

\* mutant: a DISCONTINUED release counts as absent
ReleaseExists_ActiveOnly(ws, key) ==
    ws[key] # NoJSON /\ Len(ws[key]) # 0 /\ ws[key][4] = "ACTIVE"

ReleaseExists(ws, key) == ws[key] # NoJSON /\ Len(ws[key]) # 0

\* a transaction result: err = "" on success; state = the world state after
TxOk(ws, ret) == [err |-> "", state |-> ws, ret |-> ret]
TxErr(ws, code) == [err |-> code, state |-> ws, ret |-> NoJSON]

\* mutant: a key without state reads as a blank release
getRelease_Blank(ws, key) ==
    IF ws[key] = NoJSON \/ Len(ws[key]) = 0
    THEN TxOk(ws, SoftwareRelease(key[1], key[2], <<>>, "ACTIVE", ""))
    ELSE TxOk(ws, deserialize(ws[key]))

getRelease(ws, key) ==
    IF ws[key] = NoJSON \/ Len(ws[key]) = 0
    THEN TxErr(ws, "RELEASE_NOT_FOUND")
    ELSE TxOk(ws, deserialize(ws[key]))

\* mutant: the existence check is missing, the record is overwritten
PublishRelease_Overwrite(ws, packageId, version, fileHash, mspid) ==
    TxOk([ws EXCEPT ![createKey(packageId, version)] =
              serialize(SoftwareRelease(packageId, version, fileHash, "ACTIVE", mspid))],
         SoftwareRelease(packageId, version, fileHash, "ACTIVE", mspid))

PublishRelease(ws, packageId, version, fileHash, mspid) ==
    LET key == createKey(packageId, version)
        release == SoftwareRelease(packageId, version, fileHash, "ACTIVE", mspid)
    IN  IF ReleaseExists(ws, key)
        THEN TxErr(ws, "RELEASE_ALREADY_EXISTS")
        ELSE TxOk([ws EXCEPT ![key] = serialize(release)], release)

\* mutant: the state of the key is deleted instead of rewritten
DiscontinueRelease_Delete(ws, packageId, version) ==
    IF getRelease(ws, createKey(packageId, version)).err # ""
    THEN getRelease(ws, createKey(packageId, version))
    ELSE TxOk([ws EXCEPT ![createKey(packageId, version)] = NoJSON],
              setStatus(getRelease(ws, createKey(packageId, version)).ret,
                        "DISCONTINUED"))

\* mutant: a release already DISCONTINUED is refused
DiscontinueRelease_Once(ws, packageId, version) ==
    IF getRelease(ws, createKey(packageId, version)).err # ""
    THEN getRelease(ws, createKey(packageId, version))
    ELSE IF getRelease(ws, createKey(packageId, version)).ret.status = "DISCONTINUED"
         THEN TxErr(ws, "RELEASE_DISCONTINUED")
         ELSE TxOk([ws EXCEPT ![createKey(packageId, version)] =
                       serialize(setStatus(getRelease(ws, createKey(packageId, version)).ret,
                                           "DISCONTINUED"))],
                   setStatus(getRelease(ws, createKey(packageId, version)).ret,
                             "DISCONTINUED"))

DiscontinueRelease(ws, packageId, version) ==
    LET key == createKey(packageId, version)
        got == getRelease(ws, key)
    IN  IF got.err # ""
        THEN got
        ELSE LET release == setStatus(got.ret, "DISCONTINUED")
             IN  TxOk([ws EXCEPT ![key] = serialize(release)], release)

\* mutant: the status of the release is not looked at
ValidateRelease_IgnoreStatus(ws, packageId, version, fileHash) ==
    IF ~ReleaseExists(ws, createKey(packageId, version))
    THEN TxOk(ws, FALSE)
    ELSE TxOk(ws, getRelease(ws, createKey(packageId, version)).ret.fileHash = fileHash)

\* an EVALUATE transaction: nothing is written
ValidateRelease(ws, packageId, version, fileHash) ==
    LET key == createKey(packageId, version)
    IN  IF ~ReleaseExists(ws, key)
        THEN TxOk(ws, FALSE)
        ELSE IF getRelease(ws, key).ret.fileHash # fileHash
             THEN TxOk(ws, FALSE)
             ELSE IF getRelease(ws, key).ret.status = "DISCONTINUED"
                  THEN TxOk(ws, FALSE)
                  ELSE TxOk(ws, TRUE)

GetRelease(ws, packageId, version) ==
    getRelease(ws, createKey(packageId, version))

(* ------------------------------ Init ---------------------------------- *)
IdlePub == [pc |-> "idle", user |-> "", packageId |-> "", version |-> 0,
            buffer |-> NoFile, outcome |-> "", subscriberIds |-> {}, sent |-> {}]
IdleDl == [pc |-> "idle", packageId |-> "", version |-> 0,
           body |-> NoFile, outcome |-> ""]
\* subscribedAtRequest: who was subscribed when the DELETE arrived (history)
IdleDel == [pc |-> "idle", packageId |-> "", outcome |-> "",
            subscribedAtRequest |-> {}, subscriberIds |-> {}, sent |-> {}]
IdleVal == [pc |-> "idle", packageId |-> "", version |-> 0, buffer |-> NoFile,
            uploadedHash |-> <<>>, expectedHash |-> <<>>, valid |-> FALSE,
            outcome |-> ""]
\* read: the JSON the transaction found at its key (history)
NoTx == [fn |-> "", key |-> <<>>, err |-> "", ret |-> NoJSON, read |-> NoJSON]

Init ==
    /\ worldState = [k \in Keys |-> NoJSON]
    /\ txResult = NoTx
    /\ files = [k \in Keys |-> NoFile]
    /\ packages = [p \in PackageIds |-> NoPkg]
    /\ downloadLogs = {}
    /\ subscriptions = {}
    /\ pub = [r \in PubReqs |-> IdlePub]
    /\ dl = IdleDl
    /\ del = IdleDel
    /\ val = IdleVal

(* ------------- transactions submitted to the chaincode directly ------- *)
\* what a channel client gets back from a transaction
Answer(fn, p, v, tx) ==
    [fn |-> fn, key |-> createKey(p, v), err |-> tx.err, ret |-> tx.ret,
     read |-> worldState[createKey(p, v)]]

\* SoftwareReleaseContract:PublishRelease by a client of organisation mspid
SubmitPublishRelease(p, v, h, mspid) ==
    /\ worldState' = PublishRelease(worldState, p, v, h, mspid).state
    /\ txResult' = Answer("PublishRelease", p, v,
                          PublishRelease(worldState, p, v, h, mspid))
    /\ UNCHANGED <<files, packages, downloadLogs, pub, dl, del, val, subscriptions>>

\* SoftwareReleaseContract:DiscontinueRelease (fabricNetwork.discontinueRelease
\* or any client of the channel)
SubmitDiscontinueRelease(p, v) ==
    /\ worldState' = DiscontinueRelease(worldState, p, v).state
    /\ txResult' = Answer("DiscontinueRelease", p, v,
                          DiscontinueRelease(worldState, p, v))
    /\ UNCHANGED <<files, packages, downloadLogs, pub, dl, del, val, subscriptions>>

EvaluateValidateRelease(p, v, h) ==
    /\ worldState' = ValidateRelease(worldState, p, v, h).state
    /\ txResult' = Answer("ValidateRelease", p, v,
                          ValidateRelease(worldState, p, v, h))
    /\ UNCHANGED <<files, packages, downloadLogs, pub, dl, del, val, subscriptions>>

EvaluateGetRelease(p, v) ==
    /\ worldState' = GetRelease(worldState, p, v).state
    /\ txResult' = Answer("GetRelease", p, v, GetRelease(worldState, p, v))
    /\ UNCHANGED <<files, packages, downloadLogs, pub, dl, del, val, subscriptions>>

Hashes == {calculateFileHash(b) : b \in Buffers}

NextLedger ==
    \/ \E p \in PackageIds, v \in Versions, h \in Hashes, m \in MspIds :
          SubmitPublishRelease(p, v, h, m)
    \/ \E p \in PackageIds, v \in Versions : SubmitDiscontinueRelease(p, v)
    \/ \E p \in PackageIds, v \in Versions, h \in Hashes :
          EvaluateValidateRelease(p, v, h)
    \/ \E p \in PackageIds, v \in Versions : EvaluateGetRelease(p, v)

\* the chaincode alone, driven by the clients of the channel
SpecLedger == Init /\ [][NextLedger]_vars

(* ------------------------ FabricNetworkService ------------------------ *)
\* fabricNetwork.discontinueRelease: submits DiscontinueRelease, returns void
discontinueRelease(p, v) ==
    /\ worldState' = DiscontinueRelease(worldState, p, v).state
    /\ UNCHANGED <<txResult, files, packages, downloadLogs, pub, dl, del, val, subscriptions>>

(* ------------------------- POST /packages/upload ---------------------- *)
PubKey(r) == createKey(pub[r].packageId, pub[r].version)
\* req.user is not read after line 52: the model forgets it from there on
PubDone(r, outcome) ==
    [pub EXCEPT ![r].pc = "done", ![r].outcome = outcome, ![r].user = ""]
PubGoto(r, pc) ==
    [pub EXCEPT ![r].pc = pc,
                ![r].user = IF pc = "create" THEN pub[r].user ELSE ""]

\* authenticate + requireOwnerOrAdmin + the req.file check (lines 21-39);
\* a new request takes the lowest free slot
StartPublish(r, u, p, v, b) ==
    /\ pub[r].pc = "idle"
    /\ \A q \in PubReqs : q < r => pub[q].pc # "idle"
    /\ Role(u) \in {"OWNER", "ADMIN"}
    /\ pub' = [pub EXCEPT ![r] =
                 IF b = NoFile
                 THEN [IdlePub EXCEPT !.pc = "done", !.packageId = p,
                                      !.version = v, !.outcome = "NoFile"]
                 ELSE [IdlePub EXCEPT !.pc = "findById", !.user = u,
                                      !.packageId = p, !.version = v,
                                      !.buffer = b]]
    /\ UNCHANGED <<stores, dl, del, val>>

\* mutant: the ownership check lets every caller through
OwnershipDenied_Never(owner, u) == FALSE

\* line 52: pkg.owner_id !== userId && role !== 'ADMIN'
OwnershipDenied(owner, u) == owner # u /\ Role(u) # "ADMIN"

\* PackageModel.findById, then the ownership check on the row that was read
PublishFindPackage(r) ==
    /\ pub[r].pc = "findById"
    /\ pub' = IF packages[pub[r].packageId] = NoPkg
              THEN PubGoto(r, "create")
              ELSE IF OwnershipDenied(packages[pub[r].packageId], pub[r].user)
                   THEN PubDone(r, "Forbidden")
                   ELSE PubGoto(r, "saveFile")
    /\ UNCHANGED <<stores, dl, del, val>>

\* PackageModel.create: INSERT, rejected by the primary key if the row exists
PublishCreatePackage(r) ==
    /\ pub[r].pc = "create"
    /\ IF packages[pub[r].packageId] = NoPkg
       THEN /\ packages' = [packages EXCEPT ![pub[r].packageId] = pub[r].user]
            /\ pub' = PubGoto(r, "saveFile")
       ELSE /\ pub' = PubDone(r, "PackageInsertFailed")
            /\ UNCHANGED packages
    /\ UNCHANGED <<worldState, txResult, files, downloadLogs, dl, del, val, subscriptions>>

\* fileStorage.saveFile: mkdir + writeFile, overwriting what is at the path
saveFile(fs, packageId, version, fileBuffer) ==
    [fs EXCEPT ![createKey(packageId, version)] = fileBuffer]

PublishSaveFile(r) ==
    /\ pub[r].pc = "saveFile"
    /\ files' = saveFile(files, pub[r].packageId, pub[r].version, pub[r].buffer)
    /\ pub' = PubGoto(r, "publishRelease")
    /\ UNCHANGED <<worldState, txResult, packages, downloadLogs, dl, del, val, subscriptions>>

\* mutant: the throw of saveFile is swallowed and the handler goes on
PublishSaveFileFails_GoesOn(r) ==
    /\ pub[r].pc = "saveFile"
    /\ pub' = PubGoto(r, "publishRelease")
    /\ UNCHANGED <<stores, dl, del, val>>

\* saveFile throws ("Failed to save file"): the handler's catch answers 500
PublishSaveFileFails(r) ==
    /\ pub[r].pc = "saveFile"
    /\ pub' = PubDone(r, "SaveFailed")
    /\ UNCHANGED <<stores, dl, del, val>>

\* mutant: the catch block removes the file of the key
catchPublishError_Rollback(fs, packageId, version) ==
    [fs EXCEPT ![createKey(packageId, version)] = NoFile]

\* the files after fabricNetwork.publishRelease has thrown: the catch block
\* (lines 78-81) logs and answers 500, the stored file stays
catchPublishError(fs, packageId, version) == fs

\* mutant: the hash submitted is that of the file found at the path
PublishTx_HashOfStoredFile(r) ==
    PublishRelease(worldState, pub[r].packageId, pub[r].version,
                   calculateFileHash(files[PubKey(r)]), GatewayMspId)

PublishTx(r) ==
    PublishRelease(worldState, pub[r].packageId, pub[r].version,
                   calculateFileHash(pub[r].buffer), GatewayMspId)

\* mutant: the rejection by the chaincode is swallowed, the handler notifies
PublishLedgerWrite_AlwaysNotifies(r) ==
    /\ pub[r].pc = "publishRelease"
    /\ worldState' = PublishTx(r).state
    /\ pub' = PubGoto(r, "notify")
    /\ UNCHANGED <<txResult, files, packages, downloadLogs, dl, del, val, subscriptions>>

\* fabricNetwork.publishRelease: the transaction is committed, or rejected by
\* the chaincode
PublishLedgerWrite(r) ==
    /\ pub[r].pc = "publishRelease"
    /\ worldState' = PublishTx(r).state
    /\ IF PublishTx(r).err = ""
       THEN /\ pub' = PubGoto(r, "notify")
            /\ UNCHANGED files
       ELSE /\ pub' = PubDone(r, "AlreadyExists")
            /\ files' = catchPublishError(files, pub[r].packageId, pub[r].version)
    /\ UNCHANGED <<txResult, packages, downloadLogs, dl, del, val, subscriptions>>

\* mutant: the failed upload takes the packages row away with it
PublishLedgerUnreachable_DropsPackage(r) ==
    /\ pub[r].pc = "publishRelease"
    /\ pub' = PubDone(r, "LedgerFailed")
    /\ packages' = [packages EXCEPT ![pub[r].packageId] = NoPkg]
    /\ UNCHANGED <<worldState, txResult, files, downloadLogs, dl, del, val, subscriptions>>

\* submitTransaction throws and nothing was committed (peer unreachable,
\* endorsement failure)
PublishLedgerUnreachable(r) ==
    /\ pub[r].pc = "publishRelease"
    /\ pub' = PubDone(r, "LedgerFailed")
    /\ files' = catchPublishError(files, pub[r].packageId, pub[r].version)
    /\ UNCHANGED <<worldState, txResult, packages, downloadLogs, dl, del, val, subscriptions>>

\* submitTransaction times out although the transaction was committed
PublishLedgerTimeout(r) ==
    /\ pub[r].pc = "publishRelease"
    /\ PublishTx(r).err = ""
    /\ worldState' = PublishTx(r).state
    /\ pub' = PubDone(r, "LedgerFailed")
    /\ files' = catchPublishError(files, pub[r].packageId, pub[r].version)
    /\ UNCHANGED <<txResult, packages, downloadLogs, dl, del, val, subscriptions>>

(* NotificationService and EmailService *)
\* SubscriptionModel.getSubscribersByPackage: SELECT user_id ... WHERE package_id
getSubscribersByPackage(subs, packageId) ==
    {row[1] : row \in {x \in subs : x[2] = packageId}}

\* mutant: a failed delivery is thrown to the caller
sendEmail_Throws(delivers) == [threw |-> ~delivers, ret |-> delivers]

\* emailService.sendEmail: true when the mail was sent; a failure of the mail
\* client is caught and answered false
sendEmail(delivers) == [threw |-> FALSE, ret |-> delivers]

\* the subscribers of the fan-out not yet attempted
ToNotify(req) == req.subscriberIds \ {a[1] : a \in req.sent}

\* NotificationService.notifyVersionUpdate is awaited inside the try block.
\* notifySubscribers reads the subscriber ids: with none it returns and the
\* handler answers 201; otherwise it reads the package name (no effect here)
\* and enters the loop over the ids
PublishNotify(r) ==
    /\ pub[r].pc = "notify"
    /\ pub' = IF getSubscribersByPackage(subscriptions, pub[r].packageId) = {}
              THEN PubDone(r, "Created")
              ELSE [pub EXCEPT ![r].pc = "fanout",
                               ![r].subscriberIds =
                                   getSubscribersByPackage(subscriptions,
                                                           pub[r].packageId)]
    /\ UNCHANGED <<stores, dl, del, val>>

\* one turn of the loop: UserModel.findById, then await sendEmail; after the
\* last subscriber notifySubscribers returns and the handler answers 201
PublishSendEmail(r) ==
    /\ pub[r].pc = "fanout"
    /\ \E u \in ToNotify(pub[r]), delivers \in BOOLEAN :
          pub' = IF sendEmail(delivers).threw
                 THEN [PubDone(r, "NotifyFailed") EXCEPT
                          ![r].sent = pub[r].sent \cup {<<u, FALSE>>}]
                 ELSE IF ToNotify(pub[r]) = {u}
                      THEN [PubDone(r, "Created") EXCEPT
                               ![r].sent = pub[r].sent \cup {<<u, sendEmail(delivers).ret>>}]
                      ELSE [pub EXCEPT
                               ![r].sent = pub[r].sent \cup {<<u, sendEmail(delivers).ret>>}]
    /\ UNCHANGED <<stores, dl, del, val>>

\* a query of the Notifier rejects (getSubscribersByPackage,
\* PackageModel.findById or UserModel.findById): the catch block answers 500
PublishNotifyFails(r) ==
    /\ pub[r].pc \in {"notify", "fanout"}
    /\ pub' = PubDone(r, "NotifyFailed")
    /\ UNCHANGED <<stores, dl, del, val>>

\* the response has been delivered; the slot serves the next request
PublishReturn(r) ==
    /\ pub[r].pc = "done"
    /\ pub' = [pub EXCEPT ![r] = IdlePub]
    /\ UNCHANGED <<stores, dl, del, val>>

\* the body of the 201 response (lines 67-77): fileHash is the hash saveFile
\* returned for req.file.buffer
UploadResponse(r) ==
    [packageId |-> pub[r].packageId, version |-> pub[r].version,
     fileHash |-> calculateFileHash(pub[r].buffer)]

\* res.status(...) of each outcome
HttpStatus(outcome) ==
    CASE outcome = "Created" -> 201
      [] outcome = "Sent" -> 200
      [] outcome = "Discontinued" -> 200
      [] outcome = "NoFile" -> 400
      [] outcome = "Forbidden" -> 403
      [] outcome = "Unavailable" -> 403
      [] outcome = "NotFound" -> 404
      [] OTHER -> 500

\* the gateway process dies while a request is suspended at an await: every
\* request in flight is lost, the stores keep what was written
Crash ==
    /\ \/ \E r \in PubReqs : pub[r].pc \in {"findById", "create", "saveFile",
                                            "publishRelease", "notify", "fanout"}
       \/ dl.pc \in {"getRelease", "getFile", "log"}
       \/ del.pc \in {"deleteRow", "deleteFiles", "notify", "fanout"}
       \/ val.pc \in {"getRelease", "validateRelease"}
    /\ pub' = [r \in PubReqs |-> IdlePub]
    /\ dl' = IdleDl
    /\ del' = IdleDel
    /\ val' = IdleVal
    /\ UNCHANGED stores

PublishStep(r) ==
    \/ \E u \in Users, p \in PackageIds, v \in Versions, b \in Buffers \cup {NoFile} :
          StartPublish(r, u, p, v, b)
    \/ PublishFindPackage(r)
    \/ PublishCreatePackage(r)
    \/ PublishSaveFile(r)
    \/ PublishSaveFileFails(r)
    \/ PublishLedgerWrite(r)
    \/ PublishLedgerUnreachable(r)
    \/ PublishLedgerTimeout(r)
    \/ PublishNotify(r)
    \/ PublishNotifyFails(r)
    \/ PublishReturn(r)

NextPublish ==
    \/ \E r \in PubReqs : PublishStep(r)
    \/ \E p \in PackageIds, v \in Versions : discontinueRelease(p, v)
    \/ Crash

\* concurrent publishers and the ledger
SpecPublish == Init /\ [][NextPublish]_vars

\* the steps of an admitted publish request up to its response
RaceStep(r) ==
    \/ PublishFindPackage(r)
    \/ PublishCreatePackage(r)
    \/ PublishSaveFile(r)
    \/ PublishSaveFileFails(r)
    \/ PublishLedgerWrite(r)
    \/ PublishLedgerUnreachable(r)
    \/ PublishLedgerTimeout(r)
    \/ PublishNotify(r)
    \/ PublishNotifyFails(r)

\* one publish request at a time: a request is admitted only when every
\* earlier call has returned its response
NoPublishInFlight == \A q \in PubReqs : pub[q].pc \in {"idle", "done"}

NextSequential ==
    \/ \E r \in PubReqs, u \in Users, p \in PackageIds, v \in Versions,
          b \in Buffers \cup {NoFile} :
          NoPublishInFlight /\ StartPublish(r, u, p, v, b)
    \/ \E r \in PubReqs : RaceStep(r)
    \/ \E r \in PubReqs : PublishReturn(r)
    \/ \E p \in PackageIds, v \in Versions : discontinueRelease(p, v)

SpecSequential == Init /\ [][NextSequential]_vars

\* the 500 answers after which a client sends the same upload again
Transient == {"SaveFailed", "LedgerFailed", "NotifyFailed"}

\* the caller of an upload answered 500 sends it again from scratch: the same
\* packageId, version and bytes, by the same user (the one whose upload
\* created the packages row), as a new POST /upload
RetryPublish(r) ==
    /\ pub[r].pc = "done"
    /\ pub[r].outcome \in Transient
    /\ packages[pub[r].packageId] # NoPkg
    /\ pub' = [pub EXCEPT ![r] =
                 [IdlePub EXCEPT !.pc = "findById",
                                 !.user = packages[pub[r].packageId],
                                 !.packageId = pub[r].packageId,
                                 !.version = pub[r].version,
                                 !.buffer = pub[r].buffer]]
    /\ UNCHANGED <<stores, dl, del, val>>

\* one publisher on an empty registry, who repeats an upload that failed
NextRetry ==
    \/ \E u \in Users, p \in PackageIds, v \in Versions, b \in Buffers :
          StartPublish(1, u, p, v, b)
    \/ RaceStep(1)
    \/ RetryPublish(1)

SpecRetry == Init /\ [][NextRetry]_vars

\* two publish requests for one key with different bytes, both admitted
InitRace ==
    /\ worldState = [k \in Keys |-> NoJSON]
    /\ txResult = NoTx
    /\ files = [k \in Keys |-> NoFile]
    /\ packages \in [PackageIds -> Users \cup {NoPkg}]
    /\ downloadLogs = {}
    /\ subscriptions = {}
    /\ \E p \in PackageIds, v \in Versions :
         pub \in {q \in [PubReqs -> [pc : {"findById"}, user : Users,
                                     packageId : {p}, version : {v},
                                     buffer : Buffers, outcome : {""},
                                     subscriberIds : {{}}, sent : {{}}]] :
                     \A r1, r2 \in PubReqs : r1 # r2 => q[r1].buffer # q[r2].buffer}
    /\ dl = IdleDl
    /\ del = IdleDel
    /\ val = IdleVal

NextRace == \E r \in PubReqs : RaceStep(r)

SpecRace == InitRace /\ [][NextRace]_vars

(* ------------- GET /packages/:packageId/:version/download-file -------- *)
DlKey == createKey(dl.packageId, dl.version)
DlDone(outcome, body) ==
    [dl EXCEPT !.pc = "done", !.outcome = outcome, !.body = body]

StartDownload(p, v) ==
    /\ dl.pc = "idle"
    /\ dl' = [IdleDl EXCEPT !.pc = "getRelease", !.packageId = p, !.version = v]
    /\ UNCHANGED <<stores, pub, del, val>>

\* mutant: the status of the release is not looked at
DownloadAllowed_Always(release) == TRUE

\* line 188: release.status !== 'ACTIVE' answers 403
DownloadAllowed(release) == release.status = "ACTIVE"

\* fabricNetwork.getRelease + the status check; the chaincode's "Release not
\* found for key" contains 'not found', so the catch answers 404
DownloadGetRelease ==
    /\ dl.pc = "getRelease"
    /\ dl' = IF GetRelease(worldState, dl.packageId, dl.version).err # ""
             THEN DlDone("NotFound", NoFile)
             ELSE IF ~DownloadAllowed(GetRelease(worldState, dl.packageId, dl.version).ret)
                  THEN DlDone("Unavailable", NoFile)
                  ELSE [dl EXCEPT !.pc = "getFile"]
    /\ UNCHANGED <<stores, pub, del, val>>

\* evaluateTransaction throws for a reason other than the chaincode's
DownloadLedgerUnreachable ==
    /\ dl.pc = "getRelease"
    /\ dl' = DlDone("LedgerFailed", NoFile)
    /\ UNCHANGED <<stores, pub, del, val>>

\* fileStorage.getFile: the content at the path, ENOENT if there is none
getFile(fs, packageId, version) == fs[createKey(packageId, version)]

\* mutant: the status of the release is read again before the file is
DownloadGetFile_Rechecks ==
    /\ dl.pc = "getFile"
    /\ dl' = IF ~DownloadAllowed(GetRelease(worldState, dl.packageId, dl.version).ret)
             THEN DlDone("Unavailable", NoFile)
             ELSE IF getFile(files, dl.packageId, dl.version) = NoFile
                  THEN DlDone("NotFound", NoFile)
                  ELSE [dl EXCEPT !.pc = "log",
                                  !.body = getFile(files, dl.packageId, dl.version)]
    /\ UNCHANGED <<stores, pub, del, val>>

DownloadGetFile ==
    /\ dl.pc = "getFile"
    /\ dl' = IF getFile(files, dl.packageId, dl.version) = NoFile
             THEN DlDone("NotFound", NoFile)
             ELSE [dl EXCEPT !.pc = "log",
                             !.body = getFile(files, dl.packageId, dl.version)]
    /\ UNCHANGED <<stores, pub, del, val>>

\* DownloadLogModel.create, then res.send(fileBuffer): download_logs.package_id
\* references packages, so the INSERT fails when the package row is gone and
\* the catch answers 500 without the file
DownloadLogAndSend ==
    /\ dl.pc = "log"
    /\ IF packages[dl.packageId] = NoPkg
       THEN /\ dl' = DlDone("LogFailed", NoFile)
            /\ UNCHANGED downloadLogs
       ELSE /\ dl' = DlDone("Sent", dl.body)
            /\ downloadLogs' = downloadLogs \cup {DlKey}
    /\ UNCHANGED <<worldState, txResult, files, packages, pub, del, val, subscriptions>>

DownloadReturn ==
    /\ dl.pc = "done"
    /\ dl' = IdleDl
    /\ UNCHANGED <<stores, pub, del, val>>

DownloadStep ==
    \/ \E p \in PackageIds, v \in Versions : StartDownload(p, v)
    \/ DownloadGetRelease
    \/ DownloadLedgerUnreachable
    \/ DownloadGetFile
    \/ DownloadLogAndSend
    \/ DownloadReturn

(* ---------------------- DELETE /packages/:packageId ------------------- *)
\* authenticate + requireAdmin
StartDelete(u, p) ==
    /\ del.pc = "idle"
    /\ Role(u) = "ADMIN"
    /\ del' = [IdleDel EXCEPT !.pc = "deleteRow", !.packageId = p,
                              !.subscribedAtRequest =
                                  getSubscribersByPackage(subscriptions, p)]
    /\ UNCHANGED <<stores, pub, dl, val>>

\* PackageModel.delete; the download_logs rows of the package go with it
\* (ON DELETE CASCADE)
DeletePackageRow ==
    /\ del.pc = "deleteRow"
    /\ packages' = [packages EXCEPT ![del.packageId] = NoPkg]
    /\ downloadLogs' = {k \in downloadLogs : k[1] # del.packageId}
    /\ subscriptions' = {row \in subscriptions : row[2] # del.packageId}
    /\ del' = [del EXCEPT !.pc = "deleteFiles"]
    /\ UNCHANGED <<worldState, txResult, files, pub, dl, val>>

\* fileStorage.deletePackage: rm -rf of the package directory
deletePackage(fs, packageId) ==
    [k \in Keys |-> IF k[1] = packageId THEN NoFile ELSE fs[k]]

DeletePackageFiles ==
    /\ del.pc = "deleteFiles"
    /\ files' = deletePackage(files, del.packageId)
    /\ del' = [del EXCEPT !.pc = "notify"]
    /\ UNCHANGED <<worldState, txResult, packages, downloadLogs, pub, dl, val, subscriptions>>

\* fs.rm throws part-way: some of the version directories are already gone
DeletePackageFilesFails ==
    /\ del.pc = "deleteFiles"
    /\ \E gone \in SUBSET {k \in Keys : k[1] = del.packageId} :
          /\ gone # {k \in Keys : k[1] = del.packageId}
          /\ files' = [k \in Keys |-> IF k \in gone THEN NoFile ELSE files[k]]
    /\ del' = [del EXCEPT !.pc = "done", !.outcome = "DeleteFailed"]
    /\ UNCHANGED <<worldState, txResult, packages, downloadLogs, pub, dl, val, subscriptions>>

\* NotificationService.notifyPackageDiscontinued, awaited inside the try block
\* notifyPackageDiscontinued reads the subscriber ids: with none the loop is
\* empty and the handler answers 200
DeleteNotify ==
    /\ del.pc = "notify"
    /\ del' = IF getSubscribersByPackage(subscriptions, del.packageId) = {}
              THEN [del EXCEPT !.pc = "done", !.outcome = "Discontinued"]
              ELSE [del EXCEPT !.pc = "fanout",
                               !.subscriberIds =
                                   getSubscribersByPackage(subscriptions,
                                                           del.packageId)]
    /\ UNCHANGED <<stores, pub, dl, val>>

\* one turn of the loop of notifyPackageDiscontinued
DeleteSendEmail ==
    /\ del.pc = "fanout"
    /\ \E u \in ToNotify(del), delivers \in BOOLEAN :
          del' = IF sendEmail(delivers).threw
                 THEN [del EXCEPT !.pc = "done", !.outcome = "NotifyFailed",
                                  !.sent = del.sent \cup {<<u, FALSE>>}]
                 ELSE IF ToNotify(del) = {u}
                      THEN [del EXCEPT !.pc = "done", !.outcome = "Discontinued",
                                       !.sent = del.sent \cup {<<u, sendEmail(delivers).ret>>}]
                      ELSE [del EXCEPT
                               !.sent = del.sent \cup {<<u, sendEmail(delivers).ret>>}]
    /\ UNCHANGED <<stores, pub, dl, val>>

DeleteNotifyFails ==
    /\ del.pc \in {"notify", "fanout"}
    /\ del' = [del EXCEPT !.pc = "done", !.outcome = "NotifyFailed"]
    /\ UNCHANGED <<stores, pub, dl, val>>

DeleteReturn ==
    /\ del.pc = "done"
    /\ del' = IdleDel
    /\ UNCHANGED <<stores, pub, dl, val>>

DeleteStep ==
    \/ \E u \in Users, p \in PackageIds : StartDelete(u, p)
    \/ DeletePackageRow
    \/ DeletePackageFiles
    \/ DeletePackageFilesFails
    \/ DeleteNotify
    \/ DeleteNotifyFails
    \/ DeleteReturn

(* ------------ POST /packages/:packageId/:version/validate-file -------- *)
ValKey == createKey(val.packageId, val.version)
ValDone(outcome) == [val EXCEPT !.pc = "done", !.outcome = outcome]

\* the req.file check, then calculateFileHash of the uploaded buffer
StartValidate(p, v, b) ==
    /\ val.pc = "idle"
    /\ val' = IF b = NoFile
              THEN [IdleVal EXCEPT !.pc = "done", !.packageId = p, !.version = v,
                                   !.outcome = "NoFile"]
              ELSE [IdleVal EXCEPT !.pc = "getRelease", !.packageId = p,
                                   !.version = v, !.buffer = b,
                                   !.uploadedHash = calculateFileHash(b)]
    /\ UNCHANGED <<stores, pub, dl, del>>

\* fabricNetwork.getRelease: a chaincode error is thrown to the catch block
\* (500); otherwise expectedHash = release.fileHash
ValidateGetRelease ==
    /\ val.pc = "getRelease"
    /\ val' = IF GetRelease(worldState, val.packageId, val.version).err # ""
              THEN ValDone("ReleaseNotFound")
              ELSE [val EXCEPT !.pc = "validateRelease",
                               !.expectedHash =
                                   GetRelease(worldState, val.packageId,
                                              val.version).ret.fileHash]
    /\ UNCHANGED <<stores, pub, dl, del>>

\* fabricNetwork.validateRelease: valid is what the chaincode's
\* ValidateRelease answers for the uploaded hash; res.json of the result
ValidateValidateRelease ==
    /\ val.pc = "validateRelease"
    /\ val' = [val EXCEPT !.pc = "done", !.outcome = "Validated",
                          !.valid = ValidateRelease(worldState, val.packageId,
                                                    val.version,
                                                    val.uploadedHash).ret]
    /\ UNCHANGED <<stores, pub, dl, del>>

\* evaluateTransaction rejects (peer unreachable): the catch block answers 500
ValidateLedgerUnreachable ==
    /\ val.pc \in {"getRelease", "validateRelease"}
    /\ val' = [ValDone("LedgerFailed") EXCEPT !.expectedHash = <<>>]
    /\ UNCHANGED <<stores, pub, dl, del>>

ValidateReturn ==
    /\ val.pc = "done"
    /\ val' = IdleVal
    /\ UNCHANGED <<stores, pub, dl, del>>

ValidateStep ==
    \/ \E p \in PackageIds, v \in Versions, b \in Buffers \cup {NoFile} :
          StartValidate(p, v, b)
    \/ ValidateGetRelease
    \/ ValidateValidateRelease
    \/ ValidateLedgerUnreachable
    \/ ValidateReturn

(* ------------------ POST / DELETE /subscriptions/:packageId ----------- *)
\* POST: PackageModel.findById (404 without the row), then the INSERT, which
\* the foreign key on packages rejects when the row is gone; a row that is
\* already there stays (ON CONFLICT DO NOTHING)
Subscribe(u, p) ==
    /\ packages[p] # NoPkg
    /\ subscriptions' = subscriptions \cup {<<u, p>>}
    /\ UNCHANGED <<worldState, txResult, files, packages, downloadLogs,
                   pub, dl, del, val>>

\* DELETE: SubscriptionModel.unsubscribe
Unsubscribe(u, p) ==
    /\ <<u, p>> \in subscriptions
    /\ subscriptions' = subscriptions \ {<<u, p>>}
    /\ UNCHANGED <<worldState, txResult, files, packages, downloadLogs,
                   pub, dl, del, val>>

(* ------------------------------ the registry -------------------------- *)
\* a publisher (one upload at a time), a downloader and the discontinuation
\* of releases on the ledger
Next ==
    \/ PublishStep(1)
    \/ DownloadStep
    \/ \E p \in PackageIds, v \in Versions : discontinueRelease(p, v)
    \/ Crash

Spec == Init /\ [][Next]_vars

\* a publisher (one upload at a time), the administrator deleting packages
\* and the discontinuation of releases on the ledger
NextAdmin ==
    \/ PublishStep(1)
    \/ DeleteStep
    \/ \E p \in PackageIds, v \in Versions : discontinueRelease(p, v)
    \/ Crash

SpecAdmin == Init /\ [][NextAdmin]_vars

\* a package that an upload of FirstOwner has created (the row is inserted
\* before any file or ledger write), then uploads to it by the users who are
\* neither FirstOwner nor ADMIN, and the administrator deleting packages
FirstOwner == "alice"
Strangers == {u \in Users : u # FirstOwner /\ Role(u) # "ADMIN"}

InitOwned ==
    /\ worldState = [k \in Keys |-> NoJSON]
    /\ txResult = NoTx
    /\ files = [k \in Keys |-> NoFile]
    /\ packages = [p \in PackageIds |-> FirstOwner]
    /\ downloadLogs = {}
    /\ subscriptions = {}
    /\ pub = [r \in PubReqs |-> IdlePub]
    /\ dl = IdleDl
    /\ del = IdleDel
    /\ val = IdleVal

NextOwned ==
    \/ \E u \in Strangers, p \in PackageIds, v \in Versions, b \in Buffers :
          StartPublish(1, u, p, v, b)
    \/ RaceStep(1)
    \/ PublishReturn(1)
    \/ DeleteStep

SpecOwned == InitOwned /\ [][NextOwned]_vars

\* every release of alice's package is published, some are DISCONTINUED
InitFetch ==
    /\ files \in [Keys -> Buffers]
    /\ \E status \in [Keys -> {"ACTIVE", "DISCONTINUED"}] :
          worldState = [k \in Keys |->
              serialize(SoftwareRelease(k[1], k[2], calculateFileHash(files[k]),
                                        status[k], GatewayMspId))]
    /\ txResult = NoTx
    /\ packages = [p \in PackageIds |-> "alice"]
    /\ downloadLogs = {}
    /\ subscriptions = {}
    /\ pub = [r \in PubReqs |-> IdlePub]
    /\ dl = IdleDl
    /\ del = IdleDel
    /\ val = IdleVal

\* a downloader, and what takes effect while the download is between its
\* status read and its file read: a DiscontinueRelease, or the DELETE of the
\* package, whose files are removed some time after its row
NextFetch ==
    \/ DownloadStep
    \/ \E u \in Users, p \in PackageIds : StartDelete(u, p)
    \/ dl.pc = "getFile" /\ DeletePackageRow
    \/ DeletePackageFiles
    \/ DeletePackageFilesFails
    \/ DeleteNotify
    \/ DeleteNotifyFails
    \/ DeleteReturn
    \/ \E p \in PackageIds, v \in Versions :
          dl.pc = "getFile" /\ discontinueRelease(p, v)

SpecFetch == InitFetch /\ [][NextFetch]_vars

\* a publisher (one upload at a time), a client validating files and the
\* discontinuation of releases on the ledger
NextValidate ==
    \/ PublishStep(1)
    \/ ValidateStep
    \/ \E p \in PackageIds, v \in Versions : discontinueRelease(p, v)
    \/ Crash

SpecValidate == Init /\ [][NextValidate]_vars

\* the users who subscribe to packages
Readers == {"alice", "bob"}

\* uploads of the first version of a package (one upload at a time, one
\* content), the administrator deleting packages, and users subscribing to
\* packages and leaving them
NextNotify ==
    \/ \E u \in Users, p \in PackageIds : StartPublish(1, u, p, 1, 1)
    \/ RaceStep(1)
    \/ PublishSendEmail(1)
    \/ PublishReturn(1)
    \/ DeleteStep
    \/ DeleteSendEmail
    \/ \E u \in Readers, p \in PackageIds : Subscribe(u, p)
    \/ \E u \in Readers, p \in PackageIds : Unsubscribe(u, p)
    \/ Crash

SpecNotify == Init /\ [][NextNotify]_vars

(* ------------------------ claims on the chaincode --------------------- *)
\* the JSON document stored at a key, read by property name
JsonRecord(json) ==
    [fileHash |-> json[1], packageId |-> json[2], publisher |-> json[3],
     status |-> json[4], version |-> json[5]]
HasRecord(k) == worldState[k] # NoJSON
Record(k) == JsonRecord(worldState[k])

\* C2: a PublishRelease on a key that already has a record, ACTIVE or
\* DISCONTINUED, whatever the hash and the submitting organisation, fails
\* with RELEASE_ALREADY_EXISTS and writes nothing (the world state, keyed by
\* packageId:version, keeps its single record as it was).
C2_PublishOnExistingKeyRejected ==
    \A k \in Keys, h \in Hashes, m \in MspIds :
        HasRecord(k) =>
            /\ PublishRelease(worldState, k[1], k[2], h, m).err = "RELEASE_ALREADY_EXISTS"
            /\ PublishRelease(worldState, k[1], k[2], h, m).state = worldState

\* a PublishRelease has just been rejected on a DISCONTINUED record
C2_Witness ==
    /\ txResult.fn = "PublishRelease"
    /\ txResult.err = "RELEASE_ALREADY_EXISTS"
    /\ Record(txResult.key).status = "DISCONTINUED"

\* C8: once the status of a key is DISCONTINUED, no transaction of the
\* contract makes it anything else.
C8_StatusMonotonic ==
    [][\A k \in Keys :
          (HasRecord(k) /\ Record(k).status = "DISCONTINUED")
              => (worldState'[k] # NoJSON
                  /\ JsonRecord(worldState'[k]).status = "DISCONTINUED")]_vars

\* ValidateRelease has just answered false for the recorded hash of a
\* DISCONTINUED release
C8_Witness ==
    /\ txResult.fn = "ValidateRelease"
    /\ txResult.ret = FALSE
    /\ HasRecord(txResult.key)
    /\ Record(txResult.key).status = "DISCONTINUED"

\* C9: the packageId, version, fileHash and publisher of the record at a key
\* never change once the record exists; the record's packageId and version are
\* those of its key.
C9_OnlyStatusChanges ==
    [][\A k \in Keys :
          HasRecord(k) =>
              /\ worldState'[k] # NoJSON
              /\ JsonRecord(worldState'[k]).packageId = Record(k).packageId
              /\ JsonRecord(worldState'[k]).version = Record(k).version
              /\ JsonRecord(worldState'[k]).fileHash = Record(k).fileHash
              /\ JsonRecord(worldState'[k]).publisher = Record(k).publisher
              /\ Record(k).packageId = k[1]
              /\ Record(k).version = k[2]]_vars

\* a release published by Org2MSP has been discontinued
C9_Witness ==
    /\ txResult.fn = "DiscontinueRelease"
    /\ txResult.err = ""
    /\ txResult.ret.status = "DISCONTINUED"
    /\ Record(txResult.key).publisher = "Org2MSP"
    /\ Record(txResult.key).fileHash = calculateFileHash(NumBuffers)

(* ----------------------- claims on publishRelease --------------------- *)
\* the ledger write of request r was committed and the request knows it
LedgerWriteSucceeded(r) ==
    \/ pub[r].pc = "notify"
    \/ pub[r].pc = "done" /\ pub[r].outcome \in {"Created", "NotifyFailed"}

\* C3: two publish calls in sequence at one key with different bytes, the
\* first answered 201 and the second AlreadyExists: the ledger records the
\* hash of the first call's bytes and the Artifact Store holds the first
\* call's bytes at the key.
C3_SecondWriteRolledBack ==
    \A r1, r2 \in PubReqs :
        (/\ pub[r1].pc = "done" /\ pub[r1].outcome = "Created"
         /\ pub[r2].pc = "done" /\ pub[r2].outcome = "AlreadyExists"
         /\ PubKey(r1) = PubKey(r2)
         /\ pub[r1].buffer # pub[r2].buffer)
            => /\ Record(PubKey(r1)).fileHash = calculateFileHash(pub[r1].buffer)
               /\ files[PubKey(r1)] = pub[r1].buffer

\* C4: once two concurrent publish requests for one key have both completed,
\* the Artifact Store holds at the key the bytes of the request whose ledger
\* write succeeded.
C4_WinnerBytesStored ==
    \A r1, r2 \in PubReqs :
        (/\ r1 # r2
         /\ pub[r1].pc = "done" /\ pub[r2].pc = "done"
         /\ LedgerWriteSucceeded(r1)
         /\ pub[r2].outcome = "AlreadyExists")
            => files[PubKey(r1)] = pub[r1].buffer

\* C5: of the publish requests for one key at most one has its ledger write
\* accepted, and while a request reports success (201) the record at its key
\* carries the hash of the bytes that request submitted.
C5_SingleWriterWins ==
    /\ \A r \in PubReqs :
          LedgerWriteSucceeded(r) =>
              /\ HasRecord(PubKey(r))
              /\ Record(PubKey(r)).fileHash = calculateFileHash(pub[r].buffer)
    /\ \A r1, r2 \in PubReqs :
          (r1 # r2 /\ LedgerWriteSucceeded(r1) /\ LedgerWriteSucceeded(r2))
              => PubKey(r1) # PubKey(r2)

\* two requests for one key with different bytes have returned, one with 201
\* and one with AlreadyExists, the loser having written its file last
C5_Witness ==
    \E r1, r2 \in PubReqs :
        /\ pub[r1].pc = "done" /\ pub[r1].outcome = "Created"
        /\ pub[r2].pc = "done" /\ pub[r2].outcome = "AlreadyExists"
        /\ PubKey(r1) = PubKey(r2)
        /\ pub[r1].buffer # pub[r2].buffer
        /\ files[PubKey(r1)] = pub[r2].buffer

\* C6: when a publish has returned after its ledger write failed and the key
\* has no Release record, no artifact is stored at the key.
C6_FailedPublishLeavesNoArtifact ==
    \A r \in PubReqs :
        (/\ pub[r].pc = "done"
         /\ pub[r].outcome \in {"LedgerFailed", "AlreadyExists"}
         /\ ~HasRecord(PubKey(r)))
            => files[PubKey(r)] = NoFile

(* ---------------------- claims on fetchForDownload -------------------- *)
\* C1: whenever the download-file operation returns bytes for a key, the hash
\* of the returned bytes is the fileHash of the ledger's Release record of
\* that key.
C1_DownloadMatchesLedger ==
    (dl.pc = "done" /\ dl.outcome = "Sent")
        => /\ HasRecord(DlKey)
           /\ calculateFileHash(dl.body) = Record(DlKey).fileHash

\* C7: every Release record whose status is ACTIVE has an artifact stored at
\* its key, and the hash of that artifact is the record's fileHash.
C7_ActiveReleaseHasArtifact ==
    \A k \in Keys :
        (HasRecord(k) /\ Record(k).status = "ACTIVE")
            => /\ files[k] # NoFile
               /\ calculateFileHash(files[k]) = Record(k).fileHash

\* C10: a download whose status read finds the release DISCONTINUED does not
\* go on to read the file and returns no bytes: it is answered Unavailable
\* (403), or 500 when the ledger cannot be reached.  With C8 this covers every
\* download started after the DiscontinueRelease was committed.
C10_DiscontinuedNotServed ==
    [][(/\ dl.pc = "getRelease"
        /\ HasRecord(DlKey)
        /\ Record(DlKey).status = "DISCONTINUED")
          => /\ dl'.pc \in {"getRelease", "done", "idle"}
             /\ dl'.body = NoFile
             /\ dl'.pc = "done" => dl'.outcome \in {"Unavailable", "LedgerFailed"}]_vars

\* a download of a DISCONTINUED release was refused while its artifact is
\* still in the Artifact Store
C10_Witness ==
    /\ dl.pc = "done"
    /\ dl.outcome = "Unavailable"
    /\ Record(DlKey).status = "DISCONTINUED"
    /\ files[DlKey] # NoFile

(* --------------------- claims on discontinuePackage ------------------- *)
\* C11: once DELETE /packages/:packageId has answered 200 for a package, every
\* Release record of that package on the ledger has status DISCONTINUED.
C11_PackageReleasesDiscontinued ==
    (del.pc = "done" /\ del.outcome = "Discontinued")
        => \A k \in Keys :
              (k[1] = del.packageId /\ HasRecord(k))
                  => Record(k).status = "DISCONTINUED"

\* C20: a Release record is never deleted: a key that has a record has it in
\* every later state, also when the package's row and files are removed, and
\* GetRelease on the key answers the record with its packageId, version and
\* fileHash.
C20_RecordNeverDeleted ==
    [][\A k \in Keys :
          HasRecord(k) =>
              /\ GetRelease(worldState', k[1], k[2]).err = ""
              /\ GetRelease(worldState', k[1], k[2]).ret.packageId = k[1]
              /\ GetRelease(worldState', k[1], k[2]).ret.version = k[2]
              /\ GetRelease(worldState', k[1], k[2]).ret.fileHash = Record(k).fileHash]_vars

\* the package has been deleted (row and files gone) and the ledger still has
\* a DISCONTINUED and an ACTIVE record of it
C20_Witness ==
    /\ del.pc = "done"
    /\ del.outcome = "Discontinued"
    /\ packages[del.packageId] = NoPkg
    /\ \A k \in Keys : k[1] = del.packageId => files[k] = NoFile
    /\ \E k \in Keys : k[1] = del.packageId /\ HasRecord(k)
                       /\ Record(k).status = "DISCONTINUED"
    /\ \E k \in Keys : k[1] = del.packageId /\ HasRecord(k)
                       /\ Record(k).status = "ACTIVE"

(* ------------------- claims on the ownership check -------------------- *)
\* C12: when the upload handler reads an existing package row whose owner is
\* not the caller, and the caller is not an ADMIN, the request ends with
\* Forbidden (403) in that step, with the files and the world state as they
\* were; a request that has ended takes no further step (no saveFile, no
\* PublishRelease, no notification).
C12_ForeignPublishForbidden ==
    [][\A r \in PubReqs :
          (/\ pub[r].pc = "findById"
           /\ pub'[r].pc \notin {"findById", "idle"}
           /\ packages[pub[r].packageId] \notin {NoPkg, pub[r].user}
           /\ Role(pub[r].user) # "ADMIN")
            => /\ pub'[r].pc = "done"
               /\ pub'[r].outcome = "Forbidden"
               /\ files' = files
               /\ worldState' = worldState]_vars

\* an upload to another owner's package has been answered Forbidden while
\* the key has neither artifact nor record
C12_Witness ==
    \E r \in PubReqs :
        /\ pub[r].pc = "done"
        /\ pub[r].outcome = "Forbidden"
        /\ packages[pub[r].packageId] # NoPkg
        /\ files[PubKey(r)] = NoFile
        /\ ~HasRecord(PubKey(r))

(* ------------------- claims on the ledger validate -------------------- *)
\* C16: ValidateRelease answers true exactly when the key has a record, the
\* record is ACTIVE and the candidate hash is the recorded hash; in every
\* other case it answers false; it never raises an error and writes nothing.
C16_ValidateTrueIffActiveMatch ==
    \A k \in Keys, h \in Hashes :
        /\ ValidateRelease(worldState, k[1], k[2], h).err = ""
        /\ ValidateRelease(worldState, k[1], k[2], h).state = worldState
        /\ ValidateRelease(worldState, k[1], k[2], h).ret \in BOOLEAN
        /\ ValidateRelease(worldState, k[1], k[2], h).ret
             <=> (/\ HasRecord(k)
                  /\ Record(k).status = "ACTIVE"
                  /\ Record(k).fileHash = h)

\* ValidateRelease has answered true for an ACTIVE release while another
\* release is DISCONTINUED
C16_Witness ==
    /\ txResult.fn = "ValidateRelease"
    /\ txResult.ret = TRUE
    /\ HasRecord(txResult.key)
    /\ Record(txResult.key).status = "ACTIVE"
    /\ \E k \in Keys : HasRecord(k) /\ Record(k).status = "DISCONTINUED"

(* ------------------------ claims on the Notifier ---------------------- *)
\* C17: an upload whose PublishRelease was committed and acknowledged (the
\* handler is at notifyVersionUpdate) ends with 201 Created, whatever happens
\* inside the Notifier.
C17_NotifierNeverFailsPublish ==
    [][\A r \in PubReqs :
          (pub[r].pc = "notify" /\ pub'[r].pc = "done")
              => pub'[r].outcome = "Created"]_vars

(* ---------------------- claims on validateArtifact -------------------- *)
\* C13: a validate-file request answered with a result for a key that has a
\* record, ACTIVE or DISCONTINUED, carries the recorded hash as expectedHash,
\* the hash of the uploaded bytes as actualHash, and valid is true exactly
\* when the two hashes are equal.
C13_ValidIffHashesEqual ==
    (val.pc = "done" /\ val.outcome = "Validated" /\ HasRecord(ValKey))
        => /\ val.expectedHash = Record(ValKey).fileHash
           /\ val.uploadedHash = calculateFileHash(val.buffer)
           /\ val.valid <=> (val.expectedHash = val.uploadedHash)

\* C14: a validate-file request that carries bytes and whose ledger calls
\* were answered ends with a result object, never with an error, also for a
\* key that has no Release record.
C14_ValidateNeverErrors ==
    (val.pc = "done" /\ val.buffer # NoFile /\ val.outcome # "LedgerFailed")
        => val.outcome = "Validated"

\* C15: once an upload of bytes b at a key has been answered 201 Created, a
\* validate-file result for that key is valid = true when the uploaded bytes
\* are b, and valid = false with actualHash different from expectedHash when
\* they are not.
C15_PublishedBytesValidate ==
    \A r \in PubReqs :
        (/\ pub[r].pc = "done" /\ pub[r].outcome = "Created"
         /\ PubKey(r) = ValKey
         /\ val.pc = "done" /\ val.outcome = "Validated")
            => IF val.buffer = pub[r].buffer
               THEN val.valid = TRUE
               ELSE val.valid = FALSE /\ val.uploadedHash # val.expectedHash

\* C18: once DELETE /packages/:packageId has answered 200, a 'Package
\* Discontinued' mail has been dispatched to every user who was subscribed to
\* the package when the request arrived.
C18_SubscribersToldOfDiscontinuation ==
    (del.pc = "done" /\ del.outcome = "Discontinued")
        => \A u \in del.subscribedAtRequest : \E a \in del.sent : a[1] = u

\* the fan-out after a turn of its loop: over when every subscriber id has
\* been attempted (the caller then answers success), still running otherwise
FanoutGoesOn(before, after, success) ==
    /\ after.subscriberIds = before.subscriberIds
    /\ IF ToNotify(after) = {}
       THEN after.pc = "done" /\ after.outcome = success
       ELSE after.pc = "fanout"

\* C19: in the fan-out of notifySubscribers and of notifyPackageDiscontinued,
\* a turn whose sendEmail fails for its subscriber leaves the loop running
\* over the subscribers not yet attempted, and after the last turn the caller
\* answers success: a fan-out that ended with success attempted every
\* subscriber id it had read.
C19_FailedDeliverySkipsNobody ==
    /\ [][\A r \in PubReqs :
             (pub[r].pc = "fanout"
              /\ \E a \in pub'[r].sent \ pub[r].sent : a[2] = FALSE)
                 => FanoutGoesOn(pub[r], pub'[r], "Created")]_vars
    /\ [][(del.pc = "fanout"
           /\ \E a \in del'.sent \ del.sent : a[2] = FALSE)
              => FanoutGoesOn(del, del', "Discontinued")]_vars
    /\ [](\A r \in PubReqs :
             (pub[r].pc = "done" /\ pub[r].outcome = "Created")
                 => ToNotify(pub[r]) = {})

\* an upload was answered 201 after a fan-out over two subscribers in which
\* one delivery failed and the other succeeded
C19_Witness ==
    \E r \in PubReqs :
        /\ pub[r].pc = "done"
        /\ pub[r].outcome = "Created"
        /\ Cardinality(pub[r].subscriberIds) = 2
        /\ \E a, b \in pub[r].sent : a[1] # b[1] /\ a[2] = FALSE /\ b[2] = TRUE

(* ------------------- claims on DiscontinueRelease --------------------- *)
\* C21: DiscontinueRelease on a key without a record fails with
\* RELEASE_NOT_FOUND, returns nothing and leaves the world state as it was;
\* no transaction brings a key from absent straight to DISCONTINUED.
C21_DiscontinueAbsentNotFound ==
    /\ [](\A k \in Keys :
            ~HasRecord(k) =>
                /\ DiscontinueRelease(worldState, k[1], k[2]).err = "RELEASE_NOT_FOUND"
                /\ DiscontinueRelease(worldState, k[1], k[2]).ret = NoJSON
                /\ DiscontinueRelease(worldState, k[1], k[2]).state = worldState)
    /\ [][\A k \in Keys :
            (~HasRecord(k) /\ worldState'[k] # NoJSON)
                => JsonRecord(worldState'[k]).status = "ACTIVE"]_vars

\* DiscontinueRelease has just been refused on a key that had no record,
\* while the other version of the package is on the ledger
C21_Witness ==
    /\ txResult.fn = "DiscontinueRelease"
    /\ txResult.err = "RELEASE_NOT_FOUND"
    /\ txResult.read = NoJSON
    /\ ~HasRecord(txResult.key)
    /\ \E k \in Keys : HasRecord(k)

\* C22: DiscontinueRelease on a record that is already DISCONTINUED succeeds,
\* returns that record and writes the state that was there; discontinuing
\* twice leaves the ledger as discontinuing once.
C22_DiscontinueIdempotent ==
    \A k \in Keys :
        HasRecord(k) =>
            LET once == DiscontinueRelease(worldState, k[1], k[2])
                twice == DiscontinueRelease(once.state, k[1], k[2])
            IN  /\ once.err = ""
                /\ twice.err = ""
                /\ twice.state = once.state
                /\ twice.ret = once.ret
                /\ twice.ret = JsonRecord(once.state[k])
                /\ Record(k).status = "DISCONTINUED"
                       => (once.state = worldState /\ once.ret = Record(k))

\* DiscontinueRelease has just succeeded on a record that it found
\* DISCONTINUED
C22_Witness ==
    /\ txResult.fn = "DiscontinueRelease"
    /\ txResult.err = ""
    /\ txResult.read # NoJSON
    /\ JsonRecord(txResult.read).status = "DISCONTINUED"
    /\ txResult.ret = Record(txResult.key)
    /\ worldState[txResult.key] = txResult.read

(* ------------------ claims on the upload and the ledger --------------- *)
\* C23: the ledger write of an upload that succeeds finds no record at the key
\* and leaves there the record (packageId, version, SHA-256 of the uploaded
\* bytes, ACTIVE, MSP id of the gateway's identity); the fileHash of the 201
\* response is the fileHash of that record, also once the request has ended.
C23_PublishedRecordMatchesUpload ==
    /\ [][\A r \in PubReqs :
            (pub[r].pc = "publishRelease" /\ pub'[r].pc = "notify")
                => /\ ~HasRecord(PubKey(r))
                   /\ worldState'[PubKey(r)] # NoJSON
                   /\ JsonRecord(worldState'[PubKey(r)]) =
                          SoftwareRelease(pub[r].packageId, pub[r].version,
                                          calculateFileHash(pub[r].buffer),
                                          "ACTIVE", GatewayMspId)
                   /\ UploadResponse(r).fileHash =
                          JsonRecord(worldState'[PubKey(r)]).fileHash]_vars
    /\ [](\A r \in PubReqs :
            (pub[r].pc = "done" /\ pub[r].outcome = "Created")
                => /\ HasRecord(PubKey(r))
                   /\ Record(PubKey(r)).fileHash = UploadResponse(r).fileHash
                   /\ Record(PubKey(r)).publisher = GatewayMspId)

\* an upload has been answered 201 and its record is ACTIVE on the ledger,
\* while the file of the key holds the bytes of the other upload
C23_Witness ==
    \E r \in PubReqs :
        /\ pub[r].pc = "done"
        /\ pub[r].outcome = "Created"
        /\ HttpStatus(pub[r].outcome) = 201
        /\ Record(PubKey(r)).status = "ACTIVE"
        /\ Record(PubKey(r)).fileHash = UploadResponse(r).fileHash
        /\ files[PubKey(r)] # pub[r].buffer

\* C24: an upload reaches the ledger write only from a saveFile that has
\* written its bytes; an upload whose saveFile throws ends with 500 without
\* submitting PublishRelease, the ledger and the files stay as they were; the
\* ledger is written by no upload that is not at its ledger write.
C24_LedgerWriteOnlyAfterArtifact ==
    /\ [][\A r \in PubReqs :
            (pub[r].pc # "publishRelease" /\ pub'[r].pc = "publishRelease")
                => /\ pub[r].pc = "saveFile"
                   /\ files'[PubKey(r)] = pub[r].buffer]_vars
    /\ [][\A r \in PubReqs :
            (pub[r].pc = "saveFile" /\ pub'[r].pc = "done")
                => /\ pub'[r].outcome = "SaveFailed"
                   /\ HttpStatus(pub'[r].outcome) = 500
                   /\ worldState' = worldState
                   /\ files' = files]_vars
    /\ [][worldState' # worldState
            => \E r \in PubReqs : /\ pub[r].pc = "publishRelease"
                                  /\ worldState' = PublishTx(r).state]_vars

\* an upload has ended because saveFile threw: its key has neither a record
\* nor a file
C24_Witness ==
    \E r \in PubReqs :
        /\ pub[r].pc = "done"
        /\ pub[r].outcome = "SaveFailed"
        /\ ~HasRecord(PubKey(r))
        /\ files[PubKey(r)] = NoFile

C26_RetrySafe ==
    \A r \in PubReqs :
        (pub[r].pc = "done" /\ pub[r].outcome \in {"Created", "AlreadyExists"})
            => /\ HasRecord(PubKey(r))
               /\ Record(PubKey(r)).status = "ACTIVE"
               /\ Record(PubKey(r)).fileHash = calculateFileHash(pub[r].buffer)
               /\ files[PubKey(r)] = pub[r].buffer

\* a repeated upload has ended with RELEASE_ALREADY_EXISTS: the write of an
\* earlier attempt, answered 500, had been committed
C26_Witness ==
    \E r \in PubReqs :
        /\ pub[r].pc = "done"
        /\ pub[r].outcome = "AlreadyExists"
        /\ Record(PubKey(r)).fileHash = calculateFileHash(pub[r].buffer)
        /\ files[PubKey(r)] = pub[r].buffer

(* ----------------------- claims on package ownership ------------------ *)
\* C27: once FirstOwner has created a package, every later upload to it that
\* is answered 201 comes from FirstOwner or from an ADMIN, whatever uploads
\* and DELETEs of the package happen in between: no upload of a user who is
\* neither (all the uploads of SpecOwned) is answered 201.
C27_OwnershipFixedAtCreation ==
    \A r \in PubReqs :
        ~(/\ pub[r].pc = "done"
          /\ pub[r].outcome = "Created"
          /\ HttpStatus(pub[r].outcome) = 201)

\* C28: an upload to a packageId without a row inserts the row, owned by the
\* caller, before it writes any file or record; an upload that fails at a
\* later step (saveFile, the ledger write, the notification) leaves the
\* packages table as it is, and no step of an upload changes or removes a row.
C28_PackageRowSurvivesFailure ==
    /\ [][\A r \in PubReqs :
            (pub[r].pc = "create" /\ pub'[r].pc = "saveFile")
                => /\ packages[pub[r].packageId] = NoPkg
                   /\ packages'[pub[r].packageId] = pub[r].user
                   /\ files' = files
                   /\ worldState' = worldState]_vars
    /\ [][\A r \in PubReqs :
            (pub[r].pc \in {"saveFile", "publishRelease", "notify"}
               /\ pub'[r].pc = "done" /\ pub'[r].outcome # "Created")
                => /\ packages[pub[r].packageId] # NoPkg
                   /\ packages' = packages]_vars
    /\ [][\A p \in PackageIds :
            packages[p] # NoPkg => packages'[p] = packages[p]]_vars

\* of two first uploads to a package, one lost the INSERT and the other,
\* which created the row, failed at the ledger write: the row is there, the
\* key has no record
C28_Witness ==
    \E r1, r2 \in PubReqs :
        /\ pub[r1].pc = "done" /\ pub[r1].outcome = "PackageInsertFailed"
        /\ pub[r2].pc = "done" /\ pub[r2].outcome = "LedgerFailed"
        /\ packages[pub[r2].packageId] \in Users
        /\ ~HasRecord(PubKey(r2))

\* C29: an upload reaches notifyVersionUpdate only by the step in which its
\* PublishRelease was committed on a key that had no record; mails are sent
\* only by the loop that notifyVersionUpdate starts; an upload that ends at
\* the file check, the ownership check, the INSERT, saveFile or the ledger
\* write has sent no mail.
C29_NotifyOnlyAfterLedgerWrite ==
    /\ [][\A r \in PubReqs :
            (pub[r].pc # "notify" /\ pub'[r].pc = "notify")
                => /\ pub[r].pc = "publishRelease"
                   /\ ~HasRecord(PubKey(r))
                   /\ worldState'[PubKey(r)] # NoJSON
                   /\ JsonRecord(worldState'[PubKey(r)]).fileHash =
                          calculateFileHash(pub[r].buffer)]_vars
    /\ [][\A r \in PubReqs :
            /\ (pub[r].pc # "fanout" /\ pub'[r].pc = "fanout")
                   => pub[r].pc = "notify"
            /\ (pub'[r].sent # pub[r].sent /\ pub'[r].sent # {})
                   => pub[r].pc = "fanout"]_vars
    /\ [](\A r \in PubReqs :
            (pub[r].pc = "done"
               /\ pub[r].outcome \in {"NoFile", "Forbidden", "PackageInsertFailed",
                                      "SaveFailed", "LedgerFailed", "AlreadyExists"})
                => pub[r].sent = {})

\* an upload answered 201 has sent a mail that was delivered
C29_Witness ==
    \E r \in PubReqs, u \in Users :
        /\ pub[r].pc = "done"
        /\ pub[r].outcome = "Created"
        /\ <<u, TRUE>> \in pub[r].sent
        /\ HasRecord(PubKey(r))

====
